---- MODULE Spec2Model ----
(***************************************************************************)
(* WishCo Branch Portal (app_branch_request.py): the request submission    *)
(* workflow of page_issue, the order-id generator                          *)
(* _generate_order_id_from_requests, login/logout of main and page_login,  *)
(* and the Requests / Transactions / Items sheets they read and write.     *)
(*                                                                         *)
(* Python strings that the code slices, upper-cases, formats or parses are *)
(* sequences of one-character strings, so that prefix tests, the two-digit *)
(* run suffix and the YYMMDD date are computed as the code computes them.  *)
(***************************************************************************)
EXTENDS Integers, Sequences, FiniteSets

\* ------------------------------------------------------------------ bounds

\* Number of successive generator calls of the sequential harness (SpecSeq).
MaxCalls == 101

\* Largest quantity a user types into a quantity cell.
MaxQty == 1

\* Number of orders the Requests sheet takes (appended or under way).
MaxOrders == 2

\* ------------------------------------------------------- program constants

\* min(max_run+1, 99): the run number's ceiling.
RunCap == 99

\* The setting switched on.
DeductSwitchedOn == TRUE

DEDUCT_STOCK_ON_REQUEST == FALSE

WRITE_TRANSACTIONS == TRUE

\* _derive_branch_code: `bc or "SWC000"`.
DefaultBranch == "SWC000"

\* --------------------------------------------------------------- strings

DigitChars == <<"0", "1", "2", "3", "4", "5", "6", "7", "8", "9">>

\* str.isdigit() of one character.
IsDigit(c) == \E i \in 1..10 : DigitChars[i] = c

DigitVal(c) == CHOOSE v \in 0..9 : DigitChars[v + 1] = c

\* str.isdigit(): every character a digit and at least one character.
IsAllDigits(s) == Len(s) > 0 /\ \A i \in 1..Len(s) : IsDigit(s[i])

\* int(s) of a digit string.
RECURSIVE ToInt(_)
ToInt(s) ==
    IF Len(s) = 0 THEN 0
    ELSE 10 * ToInt(SubSeq(s, 1, Len(s) - 1)) + DigitVal(s[Len(s)])

\* str(n) of a natural number.
RECURSIVE FmtInt(_)
FmtInt(n) ==
    IF n < 10 THEN <<DigitChars[n + 1]>>
    ELSE FmtInt(n \div 10) \o <<DigitChars[(n % 10) + 1]>>

\* f"{n:02d}": at least two digits, zero padded; more when n >= 100.
Fmt2(n) == IF n < 10 THEN <<"0">> \o FmtInt(n) ELSE FmtInt(n)

\* str.upper() on the alphabet the user names are drawn from.
UpperChar(c) ==
    CASE c = "a" -> "A"
      [] c = "b" -> "B"
      [] c = "c" -> "C"
      [] OTHER -> c

\* str.lower() on the same alphabet.
LowerChar(c) ==
    CASE c = "A" -> "a"
      [] c = "B" -> "b"
      [] c = "C" -> "c"
      [] OTHER -> c

StrUpper(s) == [i \in 1..Len(s) |-> UpperChar(s[i])]

StrLower(s) == [i \in 1..Len(s) |-> LowerChar(s[i])]

\* str.strip(): leading and trailing blanks removed.
RECURSIVE Strip(_)
Strip(s) ==
    IF Len(s) = 0 THEN s
    ELSE IF s[1] = " " THEN Strip(Tail(s))
    ELSE IF s[Len(s)] = " " THEN Strip(SubSeq(s, 1, Len(s) - 1))
    ELSE s

\* str.startswith(p).
StartsWith(s, p) == Len(s) >= Len(p) /\ SubSeq(s, 1, Len(p)) = p

Min(a, b) == IF a < b THEN a ELSE b

\* ------------------------------------------------------------------ clock

\* The calendar days the wall clock passes through, in order; the last day
\* of a month is followed by the first of the next.
Days == << [yy |-> 24, mm |-> 5, dd |-> 31], [yy |-> 24, mm |-> 6, dd |-> 1] >>

\* time.strftime("%y%m%d").
Ymd(d) == Fmt2(d.yy) \o Fmt2(d.mm) \o Fmt2(d.dd)

\* ------------------------------------------------------------------ state

Sessions == {"s1", "s2"}

\* Items sheet: the item codes in sheet order.
ItemCodes == <<"A100", "B200">>

CodeSet == {ItemCodes[i] : i \in 1..Len(ItemCodes)}

VARIABLES
    requests,       \* Requests sheet: the data rows, in sheet order
    transactions,   \* Transactions sheet: the data rows, in sheet order
    hasStock,       \* Items sheet has a stock column
    stock,          \* Items sheet: stock of each item code
    today,          \* index into Days of the wall clock's day
    auth,           \* st.session_state["auth"] of each session
    user,           \* st.session_state["user"] of each session
    sel_map,        \* st.session_state["sel_map"] of each session
    qty_map,        \* st.session_state["qty_map"] of each session
    last_order_id,  \* st.session_state["last_order_id"] of each session
    pc,             \* where each session's page_issue run stands
    pairs,          \* page_issue local: (code, qty) of the chosen lines
    insufficient,   \* page_issue local: the lines that failed the stock check
    order_id,       \* page_issue local: the generated order id
    full_items,     \* page_issue local: the stock column read at confirm
    now,            \* page_issue local: the day of `now`, 0 before it is taken
    seen,           \* orders in the sheet when the generator read it (history)
    sub,            \* number of the append a session's submission made (history)
    pre_sel,        \* sel_map as it was when confirm was pressed (history)
    pre_qty,        \* qty_map as it was when confirm was pressed (history)
    gen_calls,      \* generator calls made by the running submission (history)
    attempts,       \* append_rows calls made by the append that ended last (history)
    err,            \* the kind of the exception the run's append raised, "" if none
    sel_id,         \* page_issue local: the order id chosen for the cancel
    changes,        \* page_issue local: the sheet rows the cancel writes
    req_vals,       \* page_issue local: the Requests rows read for the order list
    cred,           \* what was typed into the login form that logged in (history)
    seq_out         \* ids returned to the sequential harness, in call order

vars == << requests, transactions, hasStock, stock, today, auth, user, sel_map,
           qty_map, last_order_id, pc, pairs, insufficient, order_id,
           full_items, now, seen, sub, pre_sel, pre_qty, gen_calls, attempts,
           err, sel_id, changes, req_vals, cred, seq_out >>

\* {} of Python: a dict with no keys.
EmptyMap == [c \in {} |-> 0]

\* dict.get(c, d).
Get(m, c, d) == IF c \in DOMAIN m THEN m[c] ELSE d

\* The run of a Requests row's id under `prefix`, 0 when the row does not
\* count: rid.startswith(prefix), len(rid) >= len(prefix)+2, suf.isdigit().
RunOf(rid, prefix) ==
    IF StartsWith(rid, prefix) /\ Len(rid) >= Len(prefix) + 2
    THEN LET suf == SubSeq(rid, Len(prefix) + 1, Len(prefix) + 2)
         IN  IF IsAllDigits(suf) THEN ToInt(suf) ELSE 0
    ELSE 0

\* The loop over vals[1:], max_run = max(max_run, int(suf)) from max_run = 0:
\* the largest run among the rows, 0 when no row counts.
ScanMaxRun(vals, prefix) ==
    LET runs == {RunOf(vals[i].rid, prefix) : i \in 1..Len(vals)} \cup {0}
    IN  CHOOSE m \in runs : \A n \in runs : n <= m

\* A prefix that leaves the date out.
OrderPrefixNoDate(username, day) == StrUpper(Strip(username)) \o <<"-">>

\* prefix = f"{uname}{ymd}-".
OrderPrefix(username, day) == StrUpper(Strip(username)) \o Ymd(day) \o <<"-">>

\* A generator that forgets the ceiling: f"{prefix}{max_run+1:02d}".
GenerateUnclamped(vals, username, day) ==
    LET prefix == OrderPrefix(username, day)
    IN  prefix \o Fmt2(ScanMaxRun(vals, prefix) + 1)

\* A generator that numbers by the count of the prefix's rows.
GenerateByCount(vals, username, day) ==
    LET prefix == OrderPrefix(username, day)
        n == Cardinality({i \in 1..Len(vals) : RunOf(vals[i].rid, prefix) > 0})
    IN  prefix \o Fmt2(Min(n + 1, RunCap))

\* A generator that scans for the name as typed, not upper-cased.
GenerateScanLower(vals, username, day) ==
    LET prefix == OrderPrefix(username, day)
        scanned == Strip(username) \o Ymd(day) \o <<"-">>
    IN  prefix \o Fmt2(Min(ScanMaxRun(vals, scanned) + 1, RunCap))

\* _generate_order_id_from_requests(ss, username), given the rows it reads
\* and the day the clock shows.
GenerateOrderId(vals, username, day) ==
    LET prefix == OrderPrefix(username, day)
        max_run == ScanMaxRun(vals, prefix)
    IN  prefix \o Fmt2(Min(max_run + 1, RunCap))

\* ------------------------------------------------------------------ users

\* Users sheet, in sheet order: two rows that differ only in case, a row with
\* a trailing blank and no branch code, and a disabled account.
Users == <<
    [username |-> <<"a", "b">>, password |-> "pw1", active |-> "y", branchcode |-> "BKK1"],
    [username |-> <<"A", "B">>, password |-> "pw2", active |-> "y", branchcode |-> "BKK2"],
    [username |-> <<"b", " ">>, password |-> "pw3", active |-> "",  branchcode |-> ""],
    [username |-> <<"c">>,      password |-> "pw4", active |-> "no", branchcode |-> "CNX1"] >>

\* What a visitor may type into the login form.
TypedNames == { <<"a", "b">>, <<"A", "B">>, <<"b">>, <<"c">>, <<"z">> }

TypedPasswords == {"pw1", "pw2", "pw3", "pw4"}

\* _is_active(val), on values already trimmed and lower-cased.
IsActive(val) == val \notin {"n", "no", "0", "false", "inactive", "disabled"}

\* _verify_pw(row, raw) of a row with a plaintext password and no hash.
VerifyPw(row, raw) == row.password # "" /\ raw = row.password

\* _derive_branch_code(ss, row).
DeriveBranchCode(row) == IF row.branchcode # "" THEN row.branchcode ELSE DefaultBranch

\* dfn[dfn["un_norm"] == uname.strip().lower()].head(1): the index of the
\* first matching row, 0 when none matches.
FindUserRow(typed) ==
    LET hits == {i \in 1..Len(Users) :
                    StrLower(Strip(Users[i].username)) = StrLower(Strip(typed))}
    IN  IF hits = {} THEN 0 ELSE CHOOSE i \in hits : \A j \in hits : i <= j

\* st.session_state["user"] = {} .
NoUser == [username |-> <<>>, branch_code |-> ""]

\* Nothing typed: the session is not logged in.
NoCred == [typed |-> <<>>, pw |-> ""]

\* ------------------------------------------------------------------- init

\* The stock columns the Items sheet may hold.
StockTables == { [c \in CodeSet |-> 1],
                 [c \in CodeSet |-> IF c = "A100" THEN 1 ELSE 0],
                 [c \in CodeSet |-> 0] }

\* auth and user after _ensure_session_defaults.
InitLoggedOut ==
    /\ auth = [s \in Sessions |-> FALSE]
    /\ user = [s \in Sessions |-> NoUser]
    /\ cred = [s \in Sessions |-> NoCred]

\* The rest of the session state after _ensure_session_defaults, and an empty
\* Transactions sheet.
InitRest ==
    /\ transactions = <<>>
    /\ sel_map = [s \in Sessions |-> EmptyMap]
    /\ qty_map = [s \in Sessions |-> EmptyMap]
    /\ last_order_id = [s \in Sessions |-> <<>>]
    /\ pc = [s \in Sessions |-> "idle"]
    /\ pairs = [s \in Sessions |-> <<>>]
    /\ insufficient = [s \in Sessions |-> <<>>]
    /\ order_id = [s \in Sessions |-> <<>>]
    /\ full_items = [s \in Sessions |-> EmptyMap]
    /\ now = [s \in Sessions |-> 0]
    /\ seen = [s \in Sessions |-> 0]
    /\ sub = [s \in Sessions |-> 0]
    /\ pre_sel = [s \in Sessions |-> EmptyMap]
    /\ pre_qty = [s \in Sessions |-> EmptyMap]
    /\ gen_calls = [s \in Sessions |-> 0]
    /\ attempts = [s \in Sessions |-> 0]
    /\ err = [s \in Sessions |-> ""]
    /\ sel_id = [s \in Sessions |-> <<>>]
    /\ changes = [s \in Sessions |-> {}]
    /\ req_vals = [s \in Sessions |-> <<>>]
    /\ seq_out = <<>>

\* Session state after _ensure_session_defaults, empty sheets with headers.
InitCommon == InitLoggedOut /\ InitRest

Init ==
    /\ InitCommon
    /\ requests = <<>>
    /\ today = 1
    /\ hasStock \in BOOLEAN
    /\ stock \in StockTables

\* ------------------------------------------------------------ login / logout

sessionLocals == << pc, pairs, insufficient, order_id, full_items, now, seen, sub,
                    pre_sel, pre_qty, gen_calls, attempts, err, sel_id, changes,
                    req_vals >>

sheets == << requests, transactions, hasStock, stock >>

\* A page_issue run that has ended: what the page shows until the next event.
RestStates == {"idle", "noqty", "rejected", "committed", "failed", "crashed"}

AtRest(s) == pc[s] \in RestStates

\* The next script run starts: the former run's locals are gone.
ResetLocals(s) ==
    /\ pc' = [pc EXCEPT ![s] = "idle"]
    /\ pairs' = [pairs EXCEPT ![s] = <<>>]
    /\ insufficient' = [insufficient EXCEPT ![s] = <<>>]
    /\ order_id' = [order_id EXCEPT ![s] = <<>>]
    /\ full_items' = [full_items EXCEPT ![s] = EmptyMap]
    /\ now' = [now EXCEPT ![s] = 0]
    /\ seen' = [seen EXCEPT ![s] = 0]
    /\ sub' = [sub EXCEPT ![s] = 0]
    /\ pre_sel' = [pre_sel EXCEPT ![s] = EmptyMap]
    /\ pre_qty' = [pre_qty EXCEPT ![s] = EmptyMap]
    /\ gen_calls' = [gen_calls EXCEPT ![s] = 0]
    /\ attempts' = [attempts EXCEPT ![s] = 0]
    /\ err' = [err EXCEPT ![s] = ""]
    /\ sel_id' = [sel_id EXCEPT ![s] = <<>>]
    /\ changes' = [changes EXCEPT ![s] = {}]
    /\ req_vals' = [req_vals EXCEPT ![s] = <<>>]

\* page_login: the login button with `typed` and `pw` in the form.
Login(s, typed, pw) ==
    /\ ~auth[s]
    /\ LET i == FindUserRow(typed)
       IN  /\ i # 0
           /\ IsActive(Users[i].active)
           /\ VerifyPw(Users[i], pw)
           /\ user' = [user EXCEPT ![s] =
                          [username |-> Strip(Users[i].username),
                           branch_code |-> DeriveBranchCode(Users[i])]]
    /\ auth' = [auth EXCEPT ![s] = TRUE]
    /\ cred' = [cred EXCEPT ![s] = [typed |-> typed, pw |-> pw]]
    /\ UNCHANGED << sheets, today, sel_map, qty_map, last_order_id,
                    sessionLocals, seq_out >>

\* A logout that leaves the selection in the session.
LogoutKeepingSelection(s) ==
    /\ auth[s]
    /\ AtRest(s)
    /\ auth' = [auth EXCEPT ![s] = FALSE]
    /\ user' = [user EXCEPT ![s] = NoUser]
    /\ cred' = [cred EXCEPT ![s] = NoCred]
    /\ last_order_id' = [last_order_id EXCEPT ![s] = <<>>]
    /\ ResetLocals(s)
    /\ UNCHANGED << sheets, today, sel_map, qty_map, seq_out >>

\* main: the menu entry that logs out.
Logout(s) ==
    /\ auth[s]
    /\ AtRest(s)
    /\ auth' = [auth EXCEPT ![s] = FALSE]
    /\ user' = [user EXCEPT ![s] = NoUser]
    /\ cred' = [cred EXCEPT ![s] = NoCred]
    /\ sel_map' = [sel_map EXCEPT ![s] = EmptyMap]
    /\ qty_map' = [qty_map EXCEPT ![s] = EmptyMap]
    /\ last_order_id' = [last_order_id EXCEPT ![s] = <<>>]
    /\ ResetLocals(s)
    /\ UNCHANGED << sheets, today, seq_out >>

\* The wall clock passes midnight.
Tick ==
    /\ today < Len(Days)
    /\ today' = today + 1
    /\ UNCHANGED << sheets, auth, user, cred, sel_map, qty_map, last_order_id,
                    sessionLocals, seq_out >>

\* ------------------------------------------------------- page_issue: editing

\* The rows the editors hand back when the user changes one cell of row c to
\* (selected, qty), and the loop that persists every row: a row ticked just
\* now with no quantity gets quantity 1.  The summary grid's quantity edit of
\* a chosen row writes the same qty_map entry.
Edit(s, c, selected, qty) ==
    /\ auth[s]
    /\ AtRest(s)
    /\ LET cur_sel == Get(sel_map[s], c, FALSE)
           cur_qty == Get(qty_map[s], c, 0)
           prev_sel == Get(sel_map[s], c, FALSE)
           q == IF selected /\ ~prev_sel /\ qty <= 0 THEN 1 ELSE qty
       IN  /\ \/ (selected # cur_sel /\ qty = cur_qty)
              \/ (selected = cur_sel /\ qty # cur_qty)
           /\ sel_map' = [sel_map EXCEPT ![s] =
                  [d \in CodeSet |-> IF d = c THEN selected
                                     ELSE Get(sel_map[s], d, FALSE)]]
           /\ qty_map' = [qty_map EXCEPT ![s] =
                  [d \in CodeSet |-> IF d = c THEN q
                                     ELSE Get(qty_map[s], d, 0)]]
    /\ ResetLocals(s)
    /\ UNCHANGED << sheets, today, auth, user, cred, last_order_id, seq_out >>

\* The clear-all button.
ClearAll(s) ==
    /\ auth[s]
    /\ AtRest(s)
    /\ sel_map[s] # EmptyMap
    /\ sel_map' = [sel_map EXCEPT ![s] = EmptyMap]
    /\ qty_map' = [qty_map EXCEPT ![s] = EmptyMap]
    /\ ResetLocals(s)
    /\ UNCHANGED << sheets, today, auth, user, cred, last_order_id, seq_out >>

\* ---------------------------------------------------- page_issue: validation

\* chosen = edited[(selected == True) & (qty > 0)], in table order.
Chosen(sel, qty) ==
    SelectSeq(ItemCodes, LAMBDA c : Get(sel, c, FALSE) /\ Get(qty, c, 0) > 0)

\* Pairs built from every row with a quantity, ticked or not.
ChosenPairsIgnoringTick(sel, qty) ==
    LET codes == SelectSeq(ItemCodes, LAMBDA c : Get(qty, c, 0) > 0)
    IN  [i \in 1..Len(codes) |-> [code |-> codes[i], qty |-> Get(qty, codes[i], 0)]]

\* pairs = [(c, int(current_map.get(c, 0))) for c in codes if ... > 0].
ChosenPairs(sel, qty) ==
    LET codes == SelectSeq(Chosen(sel, qty), LAMBDA c : Get(qty, c, 0) > 0)
    IN  [i \in 1..Len(codes) |-> [code |-> codes[i], qty |-> Get(qty, codes[i], 0)]]

\* have = full_items[...].get("stock", pd.Series([0])).iloc[0] or 0.
Have(code, hs, st) == IF hs THEN st[code] ELSE 0

\* A stock check that stops at the first failing line.
InsufficientFirstOnly(prs, hs, st) ==
    LET bad == SelectSeq(prs, LAMBDA p : p.qty > Have(p.code, hs, st))
    IN  IF Len(bad) = 0 THEN <<>>
        ELSE << [code |-> bad[1].code, have |-> Have(bad[1].code, hs, st),
                 need |-> bad[1].qty] >>

\* The loop of the stock check: insufficient.append((code, name, have, qty))
\* for every pair with qty > have.
Insufficient(prs, hs, st) ==
    LET bad == SelectSeq(prs, LAMBDA p : p.qty > Have(p.code, hs, st))
    IN  [i \in 1..Len(bad) |->
            [code |-> bad[i].code, have |-> Have(bad[i].code, hs, st),
             need |-> bad[i].qty]]

\* A rejection that also empties the selection.
RejectedClearing(s, ins) ==
    /\ pc' = [pc EXCEPT ![s] = "rejected"]
    /\ insufficient' = [insufficient EXCEPT ![s] = ins]
    /\ sel_map' = [sel_map EXCEPT ![s] = EmptyMap]
    /\ qty_map' = [qty_map EXCEPT ![s] = EmptyMap]

\* if insufficient: st.error(msg); return.
Rejected(s, ins) ==
    /\ pc' = [pc EXCEPT ![s] = "rejected"]
    /\ insufficient' = [insufficient EXCEPT ![s] = ins]
    /\ UNCHANGED << sel_map, qty_map >>

\* Orders the Requests sheet holds: every append is numbered in turn.
NumOrders == IF Len(requests) = 0 THEN 0 ELSE requests[Len(requests)].sub

\* Submissions that have passed validation and not ended.
UnderWay == {s \in Sessions : pc[s] \in {"persisting", "built", "req_done"}}

RoomForOrder == NumOrders + Cardinality(UnderWay) < MaxOrders

\* The confirm button with at least one chosen line: the Items sheet is read
\* again and every pair is checked against the stock.
Confirm(s) ==
    /\ auth[s]
    /\ AtRest(s)
    /\ Chosen(sel_map[s], qty_map[s]) # <<>>
    /\ RoomForOrder
    /\ sub' = [sub EXCEPT ![s] = 0]
    /\ now' = [now EXCEPT ![s] = 0]
    /\ seen' = [seen EXCEPT ![s] = 0]
    /\ pre_sel' = [pre_sel EXCEPT ![s] = sel_map[s]]
    /\ pre_qty' = [pre_qty EXCEPT ![s] = qty_map[s]]
    /\ gen_calls' = [gen_calls EXCEPT ![s] = 0]
    /\ attempts' = [attempts EXCEPT ![s] = 0]
    /\ err' = [err EXCEPT ![s] = ""]
    /\ sel_id' = [sel_id EXCEPT ![s] = <<>>]
    /\ changes' = [changes EXCEPT ![s] = {}]
    /\ req_vals' = [req_vals EXCEPT ![s] = <<>>]
    /\ order_id' = [order_id EXCEPT ![s] = <<>>]
    /\ full_items' = [full_items EXCEPT ![s] = stock]
    /\ LET prs == ChosenPairs(sel_map[s], qty_map[s])
           ins == Insufficient(prs, hasStock, stock)
       IN  /\ pairs' = [pairs EXCEPT ![s] = prs]
           /\ IF prs = <<>>
              THEN /\ pc' = [pc EXCEPT ![s] = "noqty"]
                   /\ UNCHANGED << insufficient, sel_map, qty_map >>
              ELSE IF ins # <<>>
              THEN Rejected(s, ins)
              ELSE /\ pc' = [pc EXCEPT ![s] = "persisting"]
                   /\ insufficient' = [insufficient EXCEPT ![s] = <<>>]
                   /\ UNCHANGED << sel_map, qty_map >>
    /\ UNCHANGED << sheets, today, auth, user, cred, last_order_id, seq_out >>

\* The same button when _read_items_df(ss) raises: the call stands outside
\* any try, so the exception leaves page_issue.
ConfirmReadFail(s) ==
    /\ auth[s]
    /\ AtRest(s)
    /\ Chosen(sel_map[s], qty_map[s]) # <<>>
    /\ RoomForOrder
    /\ sub' = [sub EXCEPT ![s] = 0]
    /\ now' = [now EXCEPT ![s] = 0]
    /\ seen' = [seen EXCEPT ![s] = 0]
    /\ pre_sel' = [pre_sel EXCEPT ![s] = sel_map[s]]
    /\ pre_qty' = [pre_qty EXCEPT ![s] = qty_map[s]]
    /\ gen_calls' = [gen_calls EXCEPT ![s] = 0]
    /\ attempts' = [attempts EXCEPT ![s] = 0]
    /\ err' = [err EXCEPT ![s] = ""]
    /\ sel_id' = [sel_id EXCEPT ![s] = <<>>]
    /\ changes' = [changes EXCEPT ![s] = {}]
    /\ req_vals' = [req_vals EXCEPT ![s] = <<>>]
    /\ order_id' = [order_id EXCEPT ![s] = <<>>]
    /\ full_items' = [full_items EXCEPT ![s] = EmptyMap]
    /\ pairs' = [pairs EXCEPT ![s] = <<>>]
    /\ insufficient' = [insufficient EXCEPT ![s] = <<>>]
    /\ pc' = [pc EXCEPT ![s] = "crashed"]
    /\ UNCHANGED << sheets, today, auth, user, cred, sel_map, qty_map,
                    last_order_id, seq_out >>

\* --------------------------------------------------- page_issue: persistence

inFlight == << pairs, insufficient, full_items, pre_sel, pre_qty, sel_id, changes,
              req_vals >>

stamps == << now, seen >>

\* order_id = _generate_order_id_from_requests(ss, username): one read of
\* the Requests sheet; then now = time.strftime(...).
Generate(s) ==
    /\ pc[s] = "persisting"
    /\ order_id' = [order_id EXCEPT ![s] =
           GenerateOrderId(requests, user[s].username, Days[today])]
    /\ now' = [now EXCEPT ![s] = today]
    /\ seen' = [seen EXCEPT ![s] = NumOrders]
    /\ gen_calls' = [gen_calls EXCEPT ![s] = gen_calls[s] + 1]
    /\ pc' = [pc EXCEPT ![s] = "built"]
    /\ UNCHANGED << sheets, today, auth, user, cred, sel_map, qty_map, last_order_id,
                    inFlight, sub, attempts, err, seq_out >>

\* The generator's read of the Requests sheet raises: the call stands before
\* the try, so the exception leaves page_issue.
GenerateFail(s) ==
    /\ pc[s] = "persisting"
    /\ gen_calls' = [gen_calls EXCEPT ![s] = gen_calls[s] + 1]
    /\ pc' = [pc EXCEPT ![s] = "crashed"]
    /\ UNCHANGED << sheets, today, auth, user, cred, sel_map, qty_map, last_order_id,
                    order_id, inFlight, now, seen, sub, attempts, err, seq_out >>

\* req_rows: one row per pair.  RequestTime is kept as its day; the last
\* two fields are history: the number of the append that wrote the row and
\* the orders the sheet held when the generator read it.
BuildReqRows(prs, oid, usr, t, k, r) ==
    [i \in 1..Len(prs) |->
        [time |-> t, rid |-> oid, username |-> usr.username,
         branch |-> usr.branch_code, code |-> prs[i].code, qty |-> prs[i].qty,
         status |-> "Pending", note |-> "", sub |-> k, seen |-> r]]

\* tx_rows: one row per pair when WRITE_TRANSACTIONS.
BuildTxRows(prs, oid, usr, t, k) ==
    IF WRITE_TRANSACTIONS
    THEN [i \in 1..Len(prs) |->
            [time |-> t, txid |-> oid, username |-> usr.username,
             branch |-> usr.branch_code, code |-> prs[i].code,
             qty |-> prs[i].qty, type |-> "REQ", sub |-> k]]
    ELSE <<>>

\* _append_req(ss, req_rows) returns.
AppendReq(s) ==
    /\ pc[s] = "built"
    /\ requests' =
           requests \o BuildReqRows(pairs[s], order_id[s], user[s], now[s],
                                    NumOrders + 1, seen[s])
    /\ sub' = [sub EXCEPT ![s] = NumOrders + 1]
    /\ attempts' = [attempts EXCEPT ![s] = 1]
    /\ pc' = [pc EXCEPT ![s] = "req_done"]
    /\ UNCHANGED << transactions, hasStock, stock, today, auth, user, cred, sel_map,
                    qty_map, last_order_id, order_id, inFlight, stamps,
                    gen_calls, err, seq_out >>

\* An except branch that also empties the selection.
FailedClearing(s) ==
    /\ pc' = [pc EXCEPT ![s] = "failed"]
    /\ sel_map' = [sel_map EXCEPT ![s] = EmptyMap]
    /\ qty_map' = [qty_map EXCEPT ![s] = EmptyMap]
    /\ UNCHANGED last_order_id

\* except Exception as e: st.error(...).
Failed(s) ==
    /\ pc' = [pc EXCEPT ![s] = "failed"]
    /\ UNCHANGED << sel_map, qty_map, last_order_id >>

\* _append_req(ss, req_rows): ws.append_rows is called once and raises an
\* exception of kind e; nothing was appended.
AppendReqFail(s, e) ==
    /\ pc[s] = "built"
    /\ attempts' = [attempts EXCEPT ![s] = 1]
    /\ err' = [err EXCEPT ![s] = e]
    /\ Failed(s)
    /\ UNCHANGED << sheets, today, auth, user, cred, order_id, inFlight, stamps,
                    gen_calls, sub, seq_out >>

\* The end of the try: last_order_id, the success message, both maps cleared.
Committed(s) ==
    /\ last_order_id' = [last_order_id EXCEPT ![s] = order_id[s]]
    /\ pc' = [pc EXCEPT ![s] = "committed"]
    /\ sel_map' = [sel_map EXCEPT ![s] = EmptyMap]
    /\ qty_map' = [qty_map EXCEPT ![s] = EmptyMap]

\* new_stock = have - qty for every pair, written when the setting is on.
Deducted(prs, items, st) ==
    [c \in DOMAIN st |->
        IF \E i \in 1..Len(prs) : prs[i].code = c
        THEN LET i == CHOOSE j \in 1..Len(prs) : prs[j].code = c
             IN  items[c] - prs[i].qty
        ELSE st[c]]

\* _append_tx(ss, tx_rows) returns, then the optional stock deduction, then
\* the end of the try.
AppendTx(s) ==
    /\ pc[s] = "req_done"
    /\ transactions' =
           transactions \o BuildTxRows(pairs[s], order_id[s], user[s], now[s], sub[s])
    /\ stock' = IF DEDUCT_STOCK_ON_REQUEST
                THEN Deducted(pairs[s], full_items[s], stock)
                ELSE stock
    /\ Committed(s)
    /\ UNCHANGED << requests, hasStock, today, auth, user, cred, order_id, inFlight,
                    stamps, gen_calls, sub, attempts, err, seq_out >>

\* _append_tx(ss, tx_rows): ws.append_rows is called once and raises an
\* exception of kind e, after the Requests rows were appended.
AppendTxFail(s, e) ==
    /\ pc[s] = "req_done"
    /\ attempts' = [attempts EXCEPT ![s] = 1]
    /\ err' = [err EXCEPT ![s] = e]
    /\ Failed(s)
    /\ UNCHANGED << sheets, today, auth, user, cred, order_id, inFlight, stamps,
                    gen_calls, sub, seq_out >>

\* ------------------------------------------------------- page_issue: cancel

\* df_req[df_req[c_user].str.lower() == username.lower()]: the rows of the
\* session's user, by sheet position.
MyRows(vals, me) ==
    {i \in 1..Len(vals) : StrLower(vals[i].username) = StrLower(me)}

\* agg_status of the group of request id `id` among `rows`.
AggStatus(vals, rows, id) ==
    LET sset == {vals[i].status : i \in {j \in rows : vals[j].rid = id}}
    IN  IF "Canceled" \in sset THEN "Canceled"
        ELSE IF "Approved" \in sset THEN "Approved"
        ELSE "Pending"

\* pending_ids: the user's orders whose group status is Pending.  The sheets
\* of the model hold fewer orders than the slider's smallest head(num_orders)
\* would cut.
PendingIds(vals, me) ==
    {id \in {vals[i].rid : i \in MyRows(vals, me)} :
        AggStatus(vals, MyRows(vals, me), id) = "Pending"}

\* A scan that takes every Pending row of the user, whatever its order.
CancelChangesAnyOrder(vals, id, me) ==
    {i \in 1..Len(vals) : /\ StrLower(vals[i].username) = StrLower(me)
                          /\ vals[i].status = "Pending"}

\* The scan of the cancel button: the sheet rows with the chosen id, the
\* session's user name (lower-cased on both sides) and status Pending.
CancelChanges(vals, id, me) ==
    {i \in 1..Len(vals) : /\ vals[i].rid = id
                          /\ StrLower(vals[i].username) = StrLower(me)
                          /\ vals[i].status = "Pending"}

\* A write that removes the rows instead of marking them.
CanceledByDeleting(vals, chg) ==
    LET keep == {i \in 1..Len(vals) : i \notin chg}
        Nth(n) == CHOOSE i \in keep : Cardinality({j \in keep : j < i}) = n - 1
    IN  [n \in 1..Cardinality(keep) |-> vals[Nth(n)]]

\* ws.batch_update(changes): the status cell and the note cell of every row
\* of `chg`, addressed by row number.
Canceled(vals, chg) ==
    [i \in 1..Len(vals) |->
        IF i \in chg
        THEN [vals[i] EXCEPT !.status = "Canceled", !.note = "Canceled by user"]
        ELSE vals[i]]

\* The cancel button with `id` in the select box: a new script run reads the
\* Requests sheet and collects the cells to write.
CancelRead(s, id) ==
    /\ auth[s]
    /\ AtRest(s)
    /\ id \in PendingIds(requests, user[s].username)
    /\ pc' = [pc EXCEPT ![s] = "canceling"]
    /\ sel_id' = [sel_id EXCEPT ![s] = id]
    /\ req_vals' = [req_vals EXCEPT ![s] = requests]
    /\ changes' = [changes EXCEPT ![s] = CancelChanges(requests, id, user[s].username)]
    /\ pairs' = [pairs EXCEPT ![s] = <<>>]
    /\ insufficient' = [insufficient EXCEPT ![s] = <<>>]
    /\ order_id' = [order_id EXCEPT ![s] = <<>>]
    /\ full_items' = [full_items EXCEPT ![s] = EmptyMap]
    /\ now' = [now EXCEPT ![s] = 0]
    /\ seen' = [seen EXCEPT ![s] = 0]
    /\ sub' = [sub EXCEPT ![s] = 0]
    /\ pre_sel' = [pre_sel EXCEPT ![s] = EmptyMap]
    /\ pre_qty' = [pre_qty EXCEPT ![s] = EmptyMap]
    /\ gen_calls' = [gen_calls EXCEPT ![s] = 0]
    /\ attempts' = [attempts EXCEPT ![s] = 0]
    /\ err' = [err EXCEPT ![s] = ""]
    /\ UNCHANGED << sheets, today, auth, user, cred, sel_map, qty_map,
                    last_order_id, seq_out >>

cancelFrame == << transactions, hasStock, stock, today, auth, user, cred, sel_map,
                 qty_map, last_order_id, seq_out >>

\* if changes: ws.batch_update(changes) returns and the page is run again;
\* else the order is reported as no longer Pending.  Either way the run and
\* its locals end here.
CancelWrite(s) ==
    /\ pc[s] = "canceling"
    /\ requests' = IF changes[s] # {} THEN Canceled(requests, changes[s])
                   ELSE requests
    /\ ResetLocals(s)
    /\ UNCHANGED cancelFrame

\* ws.batch_update(changes) raises: the except of the order list takes it
\* and the run ends.
CancelWriteFail(s) ==
    /\ pc[s] = "canceling"
    /\ changes[s] # {}
    /\ ResetLocals(s)
    /\ UNCHANGED << requests, cancelFrame >>

\* The approver, outside this program, marks the Pending rows of order k.
Approve(k) ==
    /\ \E i \in 1..Len(requests) : requests[i].sub = k /\ requests[i].status = "Pending"
    /\ requests' = [i \in 1..Len(requests) |->
           IF requests[i].sub = k /\ requests[i].status = "Pending"
           THEN [requests[i] EXCEPT !.status = "Approved"]
           ELSE requests[i]]
    /\ UNCHANGED << cancelFrame, sessionLocals >>

\* What the cancel button of a session may do.
CancelStep(s) ==
    \/ \E id \in PendingIds(requests, user[s].username) : CancelRead(s, id)
    \/ CancelWrite(s)
    \/ CancelWriteFail(s)

\* ---------------------------------------------------------- specifications

\* The quantities a user may type into a cell.
Quantities == 0..MaxQty

\* What the user of a session may do.
UserStep(s, names, codes, qtys) ==
    \/ \E typed \in names, pw \in TypedPasswords : Login(s, typed, pw)
    \/ Logout(s)
    \/ \E c \in codes, selected \in BOOLEAN, qty \in qtys :
           Edit(s, c, selected, qty)
    \/ ClearAll(s)
    \/ Confirm(s)

\* A call to the spreadsheet returns.
StoreStep(s) ==
    \/ Generate(s)
    \/ AppendReq(s)
    \/ AppendTx(s)

\* The exceptions an append may raise: the API's answer 429 (quota of
\* requests exceeded), or anything else.
ErrorKinds == {"rate_limit", "other"}

\* A call to the spreadsheet raises.
StoreError(s) ==
    \/ ConfirmReadFail(s)
    \/ GenerateFail(s)
    \/ \E e \in ErrorKinds : AppendReqFail(s, e)
    \/ \E e \in ErrorKinds : AppendTxFail(s, e)

\* One browser session with the whole form, on one day.
Next ==
    \/ UserStep("s1", TypedNames, CodeSet, Quantities)
    \/ StoreStep("s1")
    \/ StoreError("s1")

Spec == Init /\ [][Next]_vars

\* The user names as the Users sheet spells them, and one it does not hold.
SheetNames == {Users[i].username : i \in {1, 3, 4}} \cup {<<"z">>}

\* Two browser sessions, the clock, and a spreadsheet that answers every
\* call; each user types a name as the sheet spells it and ticks or unticks
\* the first item only.
NextMulti ==
    \/ Tick
    \/ \E s \in Sessions : UserStep(s, SheetNames, {ItemCodes[1]}, {1})
    \/ \E s \in Sessions : StoreStep(s)

\* Every item tracked and in stock.
InitMulti ==
    /\ InitCommon
    /\ requests = <<>>
    /\ today = 1
    /\ hasStock = TRUE
    /\ stock = [c \in CodeSet |-> 1]

SpecMulti == InitMulti /\ [][NextMulti]_vars

\* ------------------------------------------------------ sequential harness

\* The user and the line of every harness call.
SeqUser == [username |-> <<"a", "b">>, branch_code |-> "BKK1"]

SeqLine == << [code |-> ItemCodes[1], qty |-> 1] >>

\* A Requests sheet written by `n` earlier orders of `usr` on day `d`.
RECURSIVE Earlier(_, _, _, _)
Earlier(vals, usr, d, n) ==
    IF n = 0 THEN vals
    ELSE LET k == IF Len(vals) = 0 THEN 0 ELSE vals[Len(vals)].sub
             oid == GenerateOrderId(vals, usr.username, Days[d])
         IN  Earlier(vals \o BuildReqRows(SeqLine, oid, usr, d, k + 1, k), usr, d, n - 1)

\* The sheets the harness starts from: empty, or holding orders of the same
\* user on the day before and of another user on the same day.
SeqTables ==
    { <<>>,
      Earlier(Earlier(<<>>, SeqUser, 1, 2),
              [username |-> <<"b">>, branch_code |-> DefaultBranch], 2, 1) }

InitSeq ==
    /\ InitCommon
    /\ requests \in SeqTables
    /\ today = 2
    /\ hasStock = TRUE
    /\ stock = [c \in CodeSet |-> 1]

\* One call of the generator for SeqUser today, and the append of the row
\* that carries the id it returned.
SeqCall ==
    /\ Len(seq_out) < MaxCalls
    /\ LET oid == GenerateOrderId(requests, SeqUser.username, Days[today])
       IN  /\ requests' = requests \o
                  BuildReqRows(SeqLine, oid, SeqUser, today, NumOrders + 1, NumOrders)
           /\ seq_out' = Append(seq_out, oid)
    /\ UNCHANGED << transactions, hasStock, stock, today, auth, user, cred, sel_map,
                    qty_map, last_order_id, sessionLocals >>

NextSeq == SeqCall

SpecSeq == InitSeq /\ [][NextSeq]_vars

\* The session state page_login leaves for the Users row i.
LoggedIn(i) ==
    [username |-> Strip(Users[i].username), branch_code |-> DeriveBranchCode(Users[i])]

\* Two browser sessions that have logged in, as one user or as two, when the
\* sheet holds one order of the second user.
InitCancel ==
    /\ InitRest
    /\ auth = [s \in Sessions |-> TRUE]
    /\ \E i \in {1, 3} :
          /\ user = [s \in Sessions |-> IF s = "s1" THEN LoggedIn(1) ELSE LoggedIn(i)]
          /\ cred = [s \in Sessions |->
                        [typed |-> Users[IF s = "s1" THEN 1 ELSE i].username,
                         pw |-> Users[IF s = "s1" THEN 1 ELSE i].password]]
    /\ requests = Earlier(<<>>, LoggedIn(3), 1, 1)
    /\ today = 1
    /\ hasStock \in BOOLEAN
    /\ stock \in StockTables

\* The two sessions and the approver on one day: submissions of the first
\* item, with appends that fail, and cancels.
NextCancel ==
    \/ \E s \in Sessions, selected \in BOOLEAN : Edit(s, ItemCodes[1], selected, 1)
    \/ \E s \in Sessions : Confirm(s)
    \/ \E s \in Sessions : StoreStep(s)
    \/ \E s \in Sessions : StoreError(s)
    \/ \E s \in Sessions : CancelStep(s)
    \/ \E k \in 1..MaxOrders : Approve(k)

SpecCancel == InitCancel /\ [][NextCancel]_vars

TypeOK ==
    /\ today \in 1..Len(Days)
    /\ hasStock \in BOOLEAN
    /\ \A s \in Sessions :
          /\ pc[s] \in RestStates \cup {"persisting", "built", "req_done", "canceling"}
          /\ auth[s] \in BOOLEAN
          /\ DOMAIN sel_map[s] = DOMAIN qty_map[s]
    /\ \A i \in 1..Len(requests) : requests[i].sub \in 1..Len(requests)

\* ----------------------------------------------------------------- claims

\* The id without its last two characters, and the number those spell.
PrefixOf(rid) == SubSeq(rid, 1, Len(rid) - 2)

SuffixOf(rid) == SubSeq(rid, Len(rid) - 1, Len(rid))

RunNumber(rid) == ToInt(SuffixOf(rid))

\* The prefix of SeqUser on the harness's day, spelled out.
SeqPrefix == <<"A", "B", "2", "4", "0", "6", "0", "1", "-">>

\* C1: for a fixed user and day, with each returned id's row appended before
\* the next call, the i-th call returns the prefix followed by the two digits
\* of i while i <= 99, and of 99 for every later call: never an error, a
\* wrap-around or a run above 99.
C1_SequenceMonotone ==
    \A i \in 1..Len(seq_out) :
        /\ Len(seq_out[i]) = Len(SeqPrefix) + 2
        /\ PrefixOf(seq_out[i]) = SeqPrefix
        /\ IsAllDigits(SuffixOf(seq_out[i]))
        /\ RunNumber(seq_out[i]) = IF i <= 99 THEN i ELSE 99

\* C1 witness: the calls have gone past the ceiling: the 99th, the 100th and
\* the 101st call all returned run 99, the 98th returned 98.
C1_Witness ==
    /\ Len(seq_out) >= 101
    /\ RunNumber(seq_out[98]) = 98
    /\ RunNumber(seq_out[99]) = 99
    /\ RunNumber(seq_out[100]) = 99
    /\ RunNumber(seq_out[101]) = 99

\* The user names of the Users sheet, as a session holds them.
KnownNames == {Strip(Users[i].username) : i \in 1..Len(Users)}

\* The runs the Requests rows use under `prefix`.
UsedRuns(prefix) ==
    {RunNumber(requests[i].rid) :
        i \in {j \in 1..Len(requests) : PrefixOf(requests[j].rid) = prefix}}

\* C2: in every reachable state of the Requests sheet, sequential or
\* interleaved, the id the generator returns for a user and a day carries the
\* smallest run of 1..99 that no row with that prefix uses, whenever there is
\* one.
C2_SmallestUnused ==
    \A u \in KnownNames, d \in 1..Len(Days) :
        LET prefix == OrderPrefix(u, Days[d])
            used == UsedRuns(prefix)
            oid == GenerateOrderId(requests, u, Days[d])
            run == RunNumber(oid)
        IN  (\E n \in 1..99 : n \notin used) =>
               /\ PrefixOf(oid) = prefix
               /\ Len(oid) = Len(prefix) + 2
               /\ run \in 1..99
               /\ run \notin used
               /\ \A n \in 1..(run - 1) : n \in used

\* C2 witness: a session holds a generated id with run 02 while the rows of
\* its prefix use run 01 and nothing else.
C2_Witness ==
    \E s \in Sessions :
        /\ pc[s] = "built"
        /\ RunNumber(order_id[s]) = 2
        /\ UsedRuns(PrefixOf(order_id[s])) = {1}

\* C3: rows of two distinct submissions carry the same request id only when
\* both are of the same user on the same day and the later one read the
\* Requests sheet before the earlier one appended (nothing keeps the read and
\* the append together), or when the run stands at its ceiling 99.
C3_DuplicateOnlyByRace ==
    \A i, j \in 1..Len(requests) :
        (requests[i].sub < requests[j].sub /\ requests[i].rid = requests[j].rid) =>
            \/ RunNumber(requests[i].rid) = 99
            \/ /\ requests[i].username = requests[j].username
               /\ requests[i].time = requests[j].time
               /\ requests[j].seen < requests[i].sub

\* C3 witness: two sessions of one user have both committed, and their rows
\* carry the same request id.
C3_Witness ==
    /\ \A s \in Sessions : pc[s] = "committed"
    /\ \E i, j \in 1..Len(requests) :
          /\ requests[i].sub # requests[j].sub
          /\ requests[i].rid = requests[j].rid
          /\ \E s1, s2 \in Sessions :
                /\ s1 # s2
                /\ sub[s1] = requests[i].sub
                /\ sub[s2] = requests[j].sub
                /\ last_order_id[s1] = last_order_id[s2]

\* The ids generated so far, each with the user and the day it was generated
\* for: those of the rows and those a running submission holds.
Generated ==
    {<<requests[i].username, requests[i].time, requests[i].rid>> :
        i \in 1..Len(requests)}
    \cup {<<user[s].username, now[s], order_id[s]>> :
            s \in {x \in Sessions : order_id[x] # <<>>}}

\* C4: ids generated for two different user names, or for one user name on
\* two different days, never have the same prefix, and so are never equal.
C4_PrefixIsolation ==
    \A g, h \in Generated :
        (g[1] # h[1] \/ g[2] # h[2]) =>
            /\ PrefixOf(g[3]) # PrefixOf(h[3])
            /\ g[3] # h[3]

\* C4 witness: two users have rows of the same day with the same run number.
C4_Witness ==
    \E i, j \in 1..Len(requests) :
        /\ requests[i].username # requests[j].username
        /\ requests[i].time = requests[j].time
        /\ SuffixOf(requests[i].rid) = SuffixOf(requests[j].rid)

\* C5: after a submission that succeeds both maps of the session are empty;
\* after one that fails with a storage error they are what they were when
\* confirm was pressed.
C5_ClearOnCommitRetainOnFailure ==
    \A s \in Sessions :
        /\ pc[s] = "committed" =>
              (sel_map[s] = EmptyMap /\ qty_map[s] = EmptyMap)
        /\ pc[s] \in {"failed", "crashed"} =>
              (sel_map[s] = pre_sel[s] /\ qty_map[s] = pre_qty[s])

\* C5 witness: a session that committed one order has failed with the next,
\* with chosen lines in its maps.
C5_Witness ==
    \E s \in Sessions :
        /\ pc[s] = "failed"
        /\ last_order_id[s] # <<>>
        /\ Chosen(sel_map[s], qty_map[s]) # <<>>

\* C6: the step in which validation rejects a submission appends no row to
\* Requests or Transactions, generates no order id and leaves both maps of
\* the session as they were.
C6_RejectionChangesNothing ==
    [][\A s \in Sessions :
          pc'[s] = "rejected" =>
              /\ requests' = requests
              /\ transactions' = transactions
              /\ order_id'[s] = <<>>
              /\ gen_calls'[s] = 0
              /\ sel_map'[s] = sel_map[s]
              /\ qty_map'[s] = qty_map[s]]_vars

\* C6 witness: a submission stands rejected for a line above its stock, with
\* its lines still chosen, after an earlier order of the session was written.
C6_Witness ==
    \E s \in Sessions :
        /\ pc[s] = "rejected"
        /\ hasStock
        /\ \E i \in 1..Len(insufficient[s]) :
              insufficient[s][i].need > stock[insufficient[s][i].code]
        /\ Chosen(sel_map[s], qty_map[s]) # <<>>
        /\ Len(requests) > 0

\* The chosen lines, at confirm time, that ask for more than the stock.
Failing(s) ==
    {c \in CodeSet : /\ Get(pre_sel[s], c, FALSE)
                     /\ Get(pre_qty[s], c, 0) > 0
                     /\ Get(pre_qty[s], c, 0) > stock[c]}

\* C7: with stock tracked, the rejection list holds exactly the chosen lines
\* whose quantity exceeds the stock read at confirm time, each once, with
\* that stock and that quantity: every failing line and no passing line.
C7_RejectionListsAllFailing ==
    \A s \in Sessions :
        (pc[s] = "rejected" /\ hasStock) =>
            /\ {insufficient[s][i].code : i \in 1..Len(insufficient[s])} = Failing(s)
            /\ Len(insufficient[s]) = Cardinality(Failing(s))
            /\ \A i \in 1..Len(insufficient[s]) :
                  /\ insufficient[s][i].have = stock[insufficient[s][i].code]
                  /\ insufficient[s][i].need = pre_qty[s][insufficient[s][i].code]

\* C7 witness: a rejection that lists two lines.
C7_Witness ==
    \E s \in Sessions :
        /\ pc[s] = "rejected"
        /\ hasStock
        /\ Len(insufficient[s]) = 2

\* The rows of Requests written by append number k, in sheet order.
RowsOf(k) == SelectSeq(requests, LAMBDA r : r.sub = k)

\* C8: a committed submission called the generator once and appended one
\* Requests row per line that was ticked with a quantity above 0, in table
\* order, every row with the one order id, the session's user name and
\* branch code, the line's item code and quantity, and status Pending.
C8_OneRowPerChosenLine ==
    \A s \in Sessions :
        pc[s] = "committed" =>
            LET lines == SelectSeq(ItemCodes,
                    LAMBDA c : Get(pre_sel[s], c, FALSE) /\ Get(pre_qty[s], c, 0) > 0)
                rows == RowsOf(sub[s])
            IN  /\ gen_calls[s] = 1
                /\ Len(rows) = Len(lines)
                /\ \A i \in 1..Len(rows) :
                      /\ rows[i].rid = order_id[s]
                      /\ rows[i].rid = last_order_id[s]
                      /\ rows[i].username = user[s].username
                      /\ rows[i].branch = user[s].branch_code
                      /\ rows[i].code = lines[i]
                      /\ rows[i].qty = pre_qty[s][lines[i]]
                      /\ rows[i].status = "Pending"

\* C8 witness: a committed submission of two lines.
C8_Witness ==
    \E s \in Sessions :
        /\ pc[s] = "committed"
        /\ Len(RowsOf(sub[s])) = 2

\* C9 (the claim as stated; the code does not keep it): when the Requests
\* append has succeeded and the submission has ended, it ended as a success,
\* with the selection cleared, whatever became of the secondary write.
C9_DegradedSuccess ==
    \A s \in Sessions :
        (AtRest(s) /\ sub[s] # 0) =>
            /\ pc[s] = "committed"
            /\ sel_map[s] = EmptyMap
            /\ qty_map[s] = EmptyMap

\* C10 (the claim as stated; the code does not keep it): a submission that
\* has passed validation and called the generator ends Committed or Failed,
\* also when the generator's read of the Requests sheet raises.
C10_PersistingEndsCommittedOrFailed ==
    \A s \in Sessions :
        (AtRest(s) /\ gen_calls[s] > 0) => pc[s] \in {"committed", "failed"}

\* C11 (the claim as stated; the code does not keep it): a submission whose
\* append raised a rate-limit error reports the failure only after the append
\* was tried again, at most 5 times in all; one whose append raised any other
\* error reports it after the one attempt.
C11_RateLimitRetried ==
    \A s \in Sessions :
        pc[s] = "failed" =>
            IF err[s] = "rate_limit"
            THEN attempts[s] > 1 /\ attempts[s] <= 5
            ELSE attempts[s] = 1

\* C14 (the claim as stated; the code does not keep it): when the Items sheet
\* has no stock column, no submission stands rejected for insufficient stock.
C14_UntrackedStockNeverRejects ==
    \A s \in Sessions : ~hasStock => pc[s] # "rejected"

\* The values of the Active column that close an account.
ClosedMarks == {"n", "no", "0", "false", "inactive", "disabled"}

\* C16: a session's page_issue state moves, and so rows are appended, only
\* while auth is true; auth turns true only in a step whose typed name matches
\* (trimmed, case-insensitively) a Users row that is not closed and whose
\* password is the one typed, and the session then starts with no selection;
\* a session whose auth is false holds no user, no selection and no last
\* order id.
C16_SessionSafety ==
    [][\A s \in Sessions :
          /\ (pc'[s] # pc[s] \/ sel_map'[s] # sel_map[s] \/ qty_map'[s] # qty_map[s])
                => auth[s]
          /\ (requests' # requests \/ transactions' # transactions)
                => \E x \in Sessions : auth[x] /\ auth'[x] /\ pc'[x] # pc[x]
          /\ (auth'[s] /\ ~auth[s]) =>
                /\ \E i \in 1..Len(Users) :
                      /\ StrLower(Strip(Users[i].username))
                            = StrLower(Strip(cred'[s].typed))
                      /\ Users[i].active \notin ClosedMarks
                      /\ Users[i].password = cred'[s].pw
                      /\ user'[s].username = Strip(Users[i].username)
                /\ sel_map'[s] = EmptyMap
                /\ qty_map'[s] = EmptyMap
                /\ last_order_id'[s] = <<>>
          /\ ~auth'[s] =>
                /\ user'[s] = NoUser
                /\ sel_map'[s] = EmptyMap
                /\ qty_map'[s] = EmptyMap
                /\ last_order_id'[s] = <<>>]_vars

\* C16 witness: the sheet holds an order of one user while the session, logged
\* in again as another user, has chosen lines of its own.
C16_Witness ==
    \E s \in Sessions, i \in 1..Len(requests) :
        /\ auth[s]
        /\ requests[i].username # user[s].username
        /\ Chosen(sel_map[s], qty_map[s]) # <<>>

\* C12: with DEDUCT_STOCK_ON_REQUEST off, no step of the workflow (editing,
\* validation, a committed, rejected or failed submission, a cancel) changes
\* the stock of any item, nor whether the Items sheet has a stock column.
C12_StockUntouched ==
    [][stock' = stock /\ hasStock' = hasStock]_vars

\* C12 witness: an order was written and committed with its Transactions rows
\* and an order was canceled, on a sheet that tracks stock.
C12_Witness ==
    /\ hasStock
    /\ \E s \in Sessions : pc[s] = "committed"
    /\ transactions # <<>>
    /\ \E i \in 1..Len(requests) : requests[i].status = "Canceled"

\* C13 as first stated (the code does not keep it): no step removes a Requests
\* row or changes a field of an existing row other than its status.
C13_OnlyStatusChanges ==
    [][/\ Len(requests') >= Len(requests)
       /\ \A i \in 1..Len(requests) :
             requests'[i] = [requests[i] EXCEPT !.status = requests'[i].status]]_vars

\* C13, amended: no step removes a Requests row or changes a field of an
\* existing row other than its status and its note; the time, request id,
\* user name, branch code, item code and quantity stay as written.
C13_OnlyStatusAndNoteChange ==
    [][/\ Len(requests') >= Len(requests)
       /\ \A i \in 1..Len(requests) :
             requests'[i] = [requests[i] EXCEPT !.status = requests'[i].status,
                                                !.note = requests'[i].note]]_vars

\* C13 witness: a canceled row, its note written, stands in the sheet before
\* the rows of a later order.
C13_Witness ==
    \E i, j \in 1..Len(requests) :
        /\ i < j
        /\ requests[i].status = "Canceled"
        /\ requests[i].note # ""
        /\ requests[j].sub > requests[i].sub

\* C15: the step in which a session's cancel writes changes only rows that,
\* in the sheet as the cancel read it, carried the chosen order id, the
\* session's user name (compared lower-cased) and status Pending, and sets
\* them to Canceled; and no step of anyone turns a Canceled or Approved row
\* back to Pending.
C15_CancelTouchesOnlyOwnPendingRows ==
    [][/\ \A s \in Sessions :
             (pc[s] = "canceling" /\ pc'[s] # "canceling") =>
                 \A i \in 1..Len(requests) :
                     requests'[i] # requests[i] =>
                         /\ i <= Len(req_vals[s])
                         /\ req_vals[s][i].rid = sel_id[s]
                         /\ requests[i].rid = sel_id[s]
                         /\ StrLower(requests[i].username) = StrLower(user[s].username)
                         /\ req_vals[s][i].status = "Pending"
                         /\ requests'[i].status = "Canceled"
       /\ \A i \in 1..Len(requests) :
             requests[i].status \in {"Canceled", "Approved"} =>
                 requests'[i].status # "Pending"]_vars

\* C15 witness: a user has canceled one order while another order of the same
\* user is still Pending.
C15_Witness ==
    \E i, j \in 1..Len(requests) :
        /\ requests[i].username = requests[j].username
        /\ requests[i].rid # requests[j].rid
        /\ requests[i].status = "Canceled"
        /\ requests[j].status = "Pending"

====
